---------------------------- MODULE Spec2Model ----------------------------
(***************************************************************************)
(* Model of the near-eth-gateway contract: the meta-call parser            *)
(* (gateway/src/meta_parsing.rs), signature recovery                       *)
(* (gateway/src/ecrecover.rs) and the nonce-checking entry points          *)
(* (gateway/src/lib.rs).                                                   *)
(*                                                                         *)
(* Texts and byte buffers are sequences of integers: a character is its    *)
(* ASCII code, a byte is 0..255.  The outputs of the cryptographic         *)
(* primitives are bracketed blocks inside such a sequence (see keccak256). *)
(***************************************************************************)
EXTENDS Integers, Sequences, FiniteSets, TLC

(***************************************************************************)
(* Results: Rust's Result<T, ParsingError>, and a third outcome for a      *)
(* panic (unwrap/assert/index failure), which aborts the call.             *)
(***************************************************************************)
Ok(x) == [ok |-> TRUE, v |-> x]
Err(e) == [ok |-> FALSE, err |-> e]
Abort == [ok |-> FALSE, err |-> "abort"]

ArgumentParseError == "ArgumentParseError"
InvalidMetaTransactionMethodName == "InvalidMetaTransactionMethodName"
InvalidMetaTransactionFunctionArg == "InvalidMetaTransactionFunctionArg"
InvalidEcRecoverSignature == "InvalidEcRecoverSignature"
ArgsLengthMismatch == "ArgsLengthMismatch"

ParsingError == {ArgumentParseError, InvalidMetaTransactionMethodName,
                 InvalidMetaTransactionFunctionArg, InvalidEcRecoverSignature,
                 ArgsLengthMismatch}

(***************************************************************************)
(* Text.  Printable[i] is the character with ASCII code 31 + i (the quote, *)
(* the backslash and the backtick are spelled out and never used).         *)
(***************************************************************************)
Printable ==
  <<" ","!","dquote","#","$","%","&","'","(",")","*","+",",","-",".","/",
    "0","1","2","3","4","5","6","7","8","9",":",";","<","=",">","?",
    "@","A","B","C","D","E","F","G","H","I","J","K","L","M","N","O",
    "P","Q","R","S","T","U","V","W","X","Y","Z","[","backslash","]","^","_",
    "backtick","a","b","c","d","e","f","g","h","i","j","k","l","m","n","o",
    "p","q","r","s","t","u","v","w","x","y","z","{","|","}","~">>

Ord(c) == 31 + (CHOOSE i \in 1..Len(Printable) : Printable[i] = c)

\* The text whose characters are listed in t.
Str(t) == [i \in 1..Len(t) |-> Ord(t[i])]

\* The element of a one-element set.  The({e(r) : r \in {x}}) is e(x): it
\* reads "let r = x; e(r)", with x computed where r is bound.
The(S) == CHOOSE x \in S : TRUE

Tail2(s, n) == SubSeq(s, n + 1, Len(s))      \* &s[n..]
Head2(s, n) == SubSeq(s, 1, n)               \* &s[..n]

RECURSIVE Concat(_)
Concat(ss) == IF ss = <<>> THEN <<>> ELSE Head(ss) \o Concat(Tail(ss))

IsDigit(c) == c \in 48..57
IsAlpha(c) == c \in 65..90 \/ c \in 97..122
Underscore == Ord("_")
Dollar == Ord("$")

\* Decimal value of a run of digit characters.
RECURSIVE Decimal(_)
Decimal(ds) ==
  IF ds = <<>> THEN 0
  ELSE 10 * Decimal(Head2(ds, Len(ds) - 1)) + (ds[Len(ds)] - 48)

\* Character classes, by name.
InClass(c, cls) ==
  CASE cls = "digit" -> IsDigit(c)                                   \* [0-9]
    [] cls = "ident" -> IsAlpha(c) \/ IsDigit(c) \/ c = Underscore \/ c = Dollar
    [] cls = "arg_char" -> IsAlpha(c) \/ IsDigit(c) \/ c = Underscore
    [] cls = "not_space" -> c # 32

\* Length of the longest prefix of s all of whose characters are in cls.
RECURSIVE RunLen(_, _)
RunLen(s, cls) ==
  IF s = <<>> \/ ~InClass(Head(s), cls) THEN 0 ELSE 1 + RunLen(Tail(s), cls)

StartsWith(s, p) == Len(s) >= Len(p) /\ Head2(s, Len(p)) = p

(***************************************************************************)
(* type_lexer::Token.  One token is the longest match of the token         *)
(* regexes at the start of the text; of two matches of the same length the *)
(* keyword beats Identifier.  Every keyword is made of identifier          *)
(* characters, so a keyword is chosen exactly when the whole run of        *)
(* identifier characters is in the language of the keyword.                *)
(***************************************************************************)
IsIdentStart(c) == IsAlpha(c) \/ c = Underscore \/ c = Dollar

\* A decimal numeral without leading zero whose value is in S.
NumeralIn(ds, S) ==
  /\ ds # <<>>
  /\ \A i \in 1..Len(ds) : IsDigit(ds[i])
  /\ ds[1] # 48
  /\ Len(ds) <= 3
  /\ Decimal(ds) \in S

IntSizes == {8 * n : n \in 1..32}

\* fixed_bytes_size
fixed_bytes_size(slice) ==
  IF slice = Str(<<"b","y","t","e">>) THEN 1 ELSE Decimal(Tail2(slice, 5))

\* fixed_int_size
fixed_int_size(slice, prefix) ==
  IF slice = prefix THEN 32 ELSE Decimal(Tail2(slice, Len(prefix)))

\* A u64 is written as its decimal digits without leading zeros, so that
\* every value up to 2^64 - 1 has a name.
U64Max ==
  Str(<<"1","8","4","4","6","7","4","4","0","7","3","7","0","9","5","5","1","6",
    "1","5">>)

RECURSIVE StripZeros(_)
StripZeros(ds) ==
  IF Len(ds) > 1 /\ Head(ds) = 48 THEN StripZeros(Tail(ds)) ELSE ds

\* a <= b for numerals of the same length.
RECURSIVE DigitsLE(_, _)
DigitsLE(a, b) ==
  IF a = <<>> THEN TRUE
  ELSE IF a[1] # b[1] THEN a[1] < b[1]
  ELSE DigitsLE(Tail(a), Tail(b))

\* str::parse::<u64> on a non-empty run of digits: PosOverflow above 2^64 - 1.
parse_u64(ds) ==
  The({ IF Len(n) < Len(U64Max) \/ (Len(n) = Len(U64Max) /\ DigitsLE(n, U64Max))
        THEN Ok(n) ELSE Err("PosOverflow")
        : n \in {StripZeros(ds)} })

\* reference_type_size: Option<u64>, None as <<>> and Some(n) as <<n>>;
\* n.ok() turns a failed parse into None.
reference_type_size(slice) ==
  IF slice = Str(<<"[","]">>) THEN <<>>
  ELSE The({ IF n.ok THEN <<n.v>> ELSE <<>>
             : n \in {parse_u64(SubSeq(slice, 2, Len(slice) - 1))} })

\* A variant of WordToken that knows a sized keyword by its prefix and takes
\* the default size when the number is out of range.
WordToken_by_prefix(w) ==
  LET bytes == Str(<<"b","y","t","e","s">>)
      uint == Str(<<"u","i","n","t">>)
      int == Str(<<"i","n","t">>)
      numbered(prefix) ==
        /\ StartsWith(w, prefix) /\ Len(w) > Len(prefix)
        /\ \A i \in (Len(prefix) + 1)..Len(w) : IsDigit(w[i])
  IN  IF w = Str(<<"b","y","t","e">>) \/ numbered(bytes)
      THEN [tok |-> "FixedBytes",
            size |-> IF w # Str(<<"b","y","t","e">>)
                        /\ NumeralIn(Tail2(w, 5), 1..32)
                     THEN Decimal(Tail2(w, 5)) ELSE 1]
      ELSE IF w = uint \/ numbered(uint) THEN [tok |-> "Uint", size |-> 32]
      ELSE IF w = int \/ numbered(int) THEN [tok |-> "Int", size |-> 32]
      ELSE IF w = Str(<<"b","o","o","l">>) THEN [tok |-> "Bool"]
      ELSE IF w = Str(<<"a","d","d","r","e","s","s">>) THEN [tok |-> "Address"]
      ELSE IF w = bytes THEN [tok |-> "Bytes"]
      ELSE IF w = Str(<<"s","t","r","i","n","g">>) THEN [tok |-> "String"]
      ELSE [tok |-> "Identifier"]

\* The token of a whole run of identifier characters.
WordToken(w) ==
  LET bytes == Str(<<"b","y","t","e","s">>)
      uint == Str(<<"u","i","n","t">>)
      int == Str(<<"i","n","t">>)
  IN  IF w = Str(<<"b","y","t","e">>)
         \/ (StartsWith(w, bytes) /\ NumeralIn(Tail2(w, 5), 1..32))
      THEN [tok |-> "FixedBytes", size |-> fixed_bytes_size(w)]
      ELSE IF w = uint \/ (StartsWith(w, uint) /\ NumeralIn(Tail2(w, 4), IntSizes))
      THEN [tok |-> "Uint", size |-> fixed_int_size(w, uint)]
      ELSE IF w = int \/ (StartsWith(w, int) /\ NumeralIn(Tail2(w, 3), IntSizes))
      THEN [tok |-> "Int", size |-> fixed_int_size(w, int)]
      ELSE IF w = Str(<<"b","o","o","l">>) THEN [tok |-> "Bool"]
      ELSE IF w = Str(<<"a","d","d","r","e","s","s">>) THEN [tok |-> "Address"]
      ELSE IF w = bytes THEN [tok |-> "Bytes"]
      ELSE IF w = Str(<<"s","t","r","i","n","g">>) THEN [tok |-> "String"]
      ELSE [tok |-> "Identifier"]

\* A variant of NextToken in which a run of digits is a word of its own.
NextToken_digits(text) ==
  IF IsDigit(Head(text))
  THEN [t |-> [tok |-> "Identifier"], len |-> RunLen(text, "digit")]
  ELSE IF IsIdentStart(Head(text))
  THEN [t |-> WordToken(Head2(text, RunLen(text, "ident"))),
        len |-> RunLen(text, "ident")]
  ELSE IF /\ Head(text) = Ord("[")
          /\ Len(text) >= RunLen(Tail(text), "digit") + 2
          /\ text[RunLen(Tail(text), "digit") + 2] = Ord("]")
  THEN [t |-> [tok |-> "ReferenceType",
               length |-> reference_type_size(
                            Head2(text, RunLen(Tail(text), "digit") + 2))],
        len |-> RunLen(Tail(text), "digit") + 2]
  ELSE [t |-> [tok |-> "Error"], len |-> 1]

\* lexer.next() on a non-empty text: the token and the length of its slice.
NextToken(text) ==
  IF IsIdentStart(Head(text))
  THEN LET n == RunLen(text, "ident")
       IN  [t |-> WordToken(Head2(text, n)), len |-> n]
  ELSE IF Head(text) = Ord("[")
  THEN LET d == RunLen(Tail(text), "digit")
       IN  IF Len(text) >= d + 2 /\ text[d + 2] = Ord("]")
           THEN [t |-> [tok |-> "ReferenceType",
                        length |-> reference_type_size(Head2(text, d + 2))],
                 len |-> d + 2]
           ELSE [t |-> [tok |-> "Error"], len |-> 1]
  ELSE [t |-> [tok |-> "Error"], len |-> 1]

(***************************************************************************)
(* ArgType                                                                 *)
(***************************************************************************)
TAddress == [k |-> "Address"]
TUint == [k |-> "Uint"]
TInt == [k |-> "Int"]
TString == [k |-> "String"]
TBool == [k |-> "Bool"]
TBytes == [k |-> "Bytes"]
TByte(n) == [k |-> "Byte", size |-> n]
TCustom(name) == [k |-> "Custom", name |-> name]
TArray(length, inner) == [k |-> "Array", length |-> length, inner |-> inner]

\* The loop of parse_type: text is what the lexer has not consumed yet,
\* inner_type is Option<ArgType> (<<>> or <<t>>).
RECURSIVE parse_type_loop(_, _)
parse_type_loop(text, inner_type) ==
  IF text = <<>>
  THEN IF inner_type = <<>> THEN Err(ArgumentParseError) ELSE Ok(inner_type[1])
  ELSE The({
         IF nt.t.tok = "Error" THEN Err(ArgumentParseError)
         ELSE IF nt.t.tok = "ReferenceType" /\ inner_type = <<>>
         THEN Err(ArgumentParseError)
         ELSE parse_type_loop(
                Tail2(text, nt.len),
                CASE nt.t.tok = "Address" -> <<TAddress>>
                  [] nt.t.tok = "Bool" -> <<TBool>>
                  [] nt.t.tok = "String" -> <<TString>>
                  [] nt.t.tok = "Bytes" -> <<TBytes>>
                  [] nt.t.tok = "Identifier" -> <<TCustom(Head2(text, nt.len))>>
                  [] nt.t.tok = "FixedBytes" -> <<TByte(nt.t.size)>>
                  [] nt.t.tok = "Int" -> <<TInt>>
                  [] nt.t.tok = "Uint" -> <<TUint>>
                  [] nt.t.tok = "ReferenceType" ->
                       <<TArray(nt.t.length, inner_type[1])>>)
         : nt \in {NextToken(text)} })

parse_type(field_type) == parse_type_loop(field_type, <<>>)

(***************************************************************************)
(* Method definitions                                                      *)
(***************************************************************************)
is_arg_start(c) == IsAlpha(c) \/ c = Underscore
is_arg_char(c) == InClass(c, "arg_char")

\* Parsers return Ok(<<value, remains>>).
parse_ident(text) ==
  IF text = <<>> \/ ~is_arg_start(Head(text))
  THEN Err(InvalidMetaTransactionMethodName)
  ELSE LET i == 1 + RunLen(Tail(text), "arg_char")
       IN  Ok(<<Head2(text, i), Tail2(text, i)>>)

parse_type_raw(text) ==
  LET i == RunLen(text, "not_space")      \* text.find(' ')
  IN  IF i = Len(text) THEN Err(InvalidMetaTransactionMethodName)
      ELSE Ok(<<Head2(text, i), Tail2(text, i)>>)

consume(text, c) ==
  IF text = <<>> \/ Head(text) # c
  THEN Err(InvalidMetaTransactionMethodName)
  ELSE Ok(Tail(text))

\* The last two steps of Arg::parse, given its first two results.
Arg_parse_name(type_raw, t, remains) ==
  The({ IF ~r3.ok THEN r3 ELSE
        The({ IF ~r4.ok THEN r4 ELSE
              Ok(<<[name |-> r4.v[1], type_raw |-> type_raw, t |-> t], r4.v[2]>>)
              : r4 \in {parse_ident(r3.v)} })
        : r3 \in {consume(remains, Ord(" "))} })

Arg_parse(text) ==
  The({ IF ~r1.ok THEN r1 ELSE
        The({ IF ~r2.ok THEN r2 ELSE Arg_parse_name(r1.v[1], r2.v, r1.v[2])
              : r2 \in {parse_type(r1.v[1])} })
        : r1 \in {parse_type_raw(text)} })

\* while remains.starts_with(',') { ... }
RECURSIVE parse_more_args(_, _)
parse_more_args(args, remains) ==
  IF remains # <<>> /\ Head(remains) = Ord(",")
  THEN The({ IF ~r.ok THEN r ELSE parse_more_args(Append(args, r.v[1]), r.v[2])
             : r \in {Arg_parse(Tail(remains))} })
  ELSE Ok(<<args, remains>>)

\* The argument list of Arg::parse_args, after the opening parenthesis.
Arg_parse_list(remains) ==
  IF is_arg_start(Head(remains))
  THEN The({ IF ~a.ok THEN a ELSE parse_more_args(<<a.v[1]>>, a.v[2])
             : a \in {Arg_parse(remains)} })
  ELSE Ok(<<<<>>, remains>>)

Arg_parse_args(text) ==
  The({ IF ~r0.ok THEN r0 ELSE
        IF r0.v = <<>> THEN Err(InvalidMetaTransactionMethodName) ELSE
        The({ IF ~r1.ok THEN r1 ELSE
              The({ IF ~r2.ok THEN r2 ELSE Ok(<<r1.v[1], r2.v>>)
                    : r2 \in {consume(r1.v[2], Ord(")"))} })
              : r1 \in {Arg_parse_list(r0.v)} })
        : r0 \in {consume(text, Ord("("))} })

\* A variant of Method_parse that keeps the whole text as raw.
Method_parse_keeping_text(method_def) ==
  The({ IF ~r1.ok THEN r1 ELSE
        The({ IF ~r2.ok THEN r2 ELSE
              Ok(<<[name |-> r1.v[1], args |-> r2.v[1], raw |-> method_def],
                   r2.v[2]>>)
              : r2 \in {Arg_parse_args(r1.v[2])} })
        : r1 \in {parse_ident(method_def)} })

Method_parse(method_def) ==
  The({ IF ~r1.ok THEN r1 ELSE
        The({ IF ~r2.ok THEN r2 ELSE
              Ok(<<[name |-> r1.v[1], args |-> r2.v[1],
                    raw |-> Head2(method_def, Len(method_def) - Len(r2.v[2]))],
                   r2.v[2]>>)
              : r2 \in {Arg_parse_args(r1.v[2])} })
        : r1 \in {parse_ident(method_def)} })

\* HashMap::insert: a later declaration of the same name replaces the earlier.
MapInsert(m, key, val) ==
  [x \in DOMAIN m \cup {key} |-> IF x = key THEN val ELSE m[x]]

EmptyMap == [x \in {} |-> x]

\* while !types.is_empty() { ... }
RECURSIVE parse_types_loop(_, _, _, _)
parse_types_loop(method, types, type_sequences, parsed_types) ==
  IF types = <<>>
  THEN Ok([method |-> method, types |-> parsed_types,
           type_sequences |-> type_sequences])
  ELSE The({ IF ~r.ok THEN r
             ELSE parse_types_loop(method, r.v[2],
                                   Append(type_sequences, r.v[1].name),
                                   MapInsert(parsed_types, r.v[1].name, r.v[1]))
             : r \in {Method_parse(types)} })

MethodAndTypes_parse(method_def) ==
  The({ IF ~r.ok THEN r ELSE parse_types_loop(r.v[1], r.v[2], <<>>, EmptyMap)
        : r \in {Method_parse(method_def)} })

RECURSIVE join_type_raw(_, _)
join_type_raw(args, i) ==
  IF i > Len(args) THEN <<>>
  ELSE (IF i > 1 THEN <<Ord(",")>> ELSE <<>>) \o args[i].type_raw
       \o join_type_raw(args, i + 1)

method_signature(method_and_type) ==
  method_and_type.method.name \o <<Ord("(")>>
    \o join_type_raw(method_and_type.method.args, 1) \o <<Ord(")")>>

(***************************************************************************)
(* Byte buffers and primitives (types.rs)                                  *)
(***************************************************************************)
Byte == 0..255

RECURSIVE Zeros(_)
Zeros(n) == IF n <= 0 THEN <<>> ELSE <<0>> \o Zeros(n - 1)

Reverse(s) == [i \in 1..Len(s) |-> s[Len(s) + 1 - i]]

\* keccak256 is modelled as an injective function: its 32-byte output is the
\* block KeccakOpen, data, KeccakClose.  The two brackets are not bytes, so
\* a buffer that concatenates blocks and bytes reads back in one way only.
KeccakOpen == 256
KeccakClose == 257
keccak256(data) == <<KeccakOpen>> \o data \o <<KeccakClose>>

\* A U256 is held least significant byte first (primitive_types keeps its
\* limbs in that order); RawU256 is the 32-byte big-endian array.
U256_from_arr(arr) == Reverse(arr)                       \* U256::from([u8; 32])
u256_to_arr(value) == Reverse(value)                     \* to_big_endian
U256_zero == Zeros(32)

\* U256::from_big_endian: panics on more than 32 bytes, pads shorter input.
U256_from_big_endian(b) ==
  IF Len(b) > 32 THEN Abort ELSE Ok(Reverse(b) \o Zeros(32 - Len(b)))

\* U256::as_u128: panics unless the value fits 128 bits.
U256_as_u128(value) ==
  IF \E i \in 17..32 : value[i] # 0 THEN Abort ELSE Ok(Head2(value, 16))

\* U256::from(u128)
U256_from_u128(x) == x \o Zeros(16)

\* value + 1 for U256: panics on overflow.
RECURSIVE IncLE(_)
IncLE(value) ==
  IF value = <<>> THEN <<>>
  ELSE IF Head(value) < 255 THEN <<Head(value) + 1>> \o Tail(value)
  ELSE <<0>> \o IncLE(Tail(value))

\* A variant of U256_add_one that adds nothing.
U256_add_nothing(value) == Ok(value)

U256_add_one(value) ==
  IF \A i \in 1..Len(value) : value[i] = 255 THEN Abort ELSE Ok(IncLE(value))

\* arr_to_u256: copy_from_slice into a RawU256.
arr_to_u256(value) == value

\* Address (H160): 20 bytes.
Address_zero == Zeros(20)

\* Address::from_slice panics unless the slice has 20 bytes.
Address_from_slice(b) == IF Len(b) # 20 THEN Abort ELSE Ok(b)

encode_address(addr) == Zeros(12) \o addr

(***************************************************************************)
(* RLP (the rlp crate as used by rlp_decode and impl Decodable for         *)
(* RlpValue).  usize has 32 bits on the contract's wasm32 target.          *)
(***************************************************************************)
RlpBytes(b) == [k |-> "Bytes", b |-> b]
RlpList(l) == [k |-> "List", l |-> l]

LenCap == 2 ^ 20

\* decode_usize: big-endian, no leading zero byte, at most 4 bytes.  Lengths
\* above LenCap are reported as LenCap: no modelled buffer is that long.
RECURSIVE BigEndian(_)
BigEndian(bs) ==
  IF bs = <<>> THEN 0
  ELSE LET hi == BigEndian(Head2(bs, Len(bs) - 1))
       IN  IF hi * 256 + bs[Len(bs)] > LenCap THEN LenCap
           ELSE hi * 256 + bs[Len(bs)]

decode_usize(bs) ==
  IF Len(bs) > 4 THEN Err("RlpIsTooBig")
  ELSE IF bs[1] = 0 THEN Err("RlpInvalidIndirection")
  ELSE Ok(BigEndian(bs))

\* calculate_payload_info
calculate_payload_info(header_bytes, len_of_len) ==
  LET header_len == 1 + len_of_len
  IN  IF Len(header_bytes) < 2 THEN Err("RlpIsTooShort")
      ELSE IF header_bytes[2] = 0 THEN Err("RlpDataLenWithZeroPrefix")
      ELSE IF Len(header_bytes) < header_len THEN Err("RlpIsTooShort")
      ELSE The({ IF ~r.ok THEN r
                 ELSE IF r.v <= 55 THEN Err("RlpInvalidIndirection")
                 ELSE Ok([header_len |-> header_len, value_len |-> r.v])
                 : r \in {decode_usize(SubSeq(header_bytes, 2, header_len))} })

\* PayloadInfo::from
PayloadInfo_from(header_bytes) ==
  IF header_bytes = <<>> THEN Err("RlpIsTooShort")
  ELSE LET l == header_bytes[1]
       IN  IF l <= 127 THEN Ok([header_len |-> 0, value_len |-> 1])
           ELSE IF l <= 183 THEN Ok([header_len |-> 1, value_len |-> l - 128])
           ELSE IF l <= 191 THEN calculate_payload_info(header_bytes, l - 183)
           ELSE IF l <= 247 THEN Ok([header_len |-> 1, value_len |-> l - 192])
           ELSE calculate_payload_info(header_bytes, l - 247)

\* BasicDecoder::payload_info
payload_info(bytes) ==
  The({ IF ~item.ok THEN item
        ELSE IF item.v.header_len + item.v.value_len <= Len(bytes) THEN item
        ELSE Err("RlpIsTooShort")
        : item \in {PayloadInfo_from(bytes)} })

\* Rlp::is_list
is_list(bytes) == bytes # <<>> /\ bytes[1] >= 192

\* RlpIterator over a list payload: Rlp::at(index) for index = 0, 1, ...
\* until it fails; the failure ends the iteration and is not reported.
RECURSIVE RlpItems(_)
RlpItems(payload) ==
  The({ IF ~found.ok THEN <<>>
        ELSE <<Head2(payload, found.v.header_len + found.v.value_len)>>
             \o RlpItems(Tail2(payload, found.v.header_len + found.v.value_len))
        : found \in {payload_info(payload)} })

\* Rlp::iter: the items of a list; nothing when the data is not a list or
\* consume_list_payload fails.
Rlp_iter(bytes) ==
  IF ~is_list(bytes) THEN <<>>
  ELSE The({ IF ~item.ok THEN <<>>
             ELSE RlpItems(SubSeq(bytes, item.v.header_len + 1,
                                  item.v.header_len + item.v.value_len))
             : item \in {payload_info(bytes)} })

\* Decoder::decode_value(|bytes| Ok(bytes.to_vec())) on one item.
decode_value(bytes) ==
  IF bytes = <<>> THEN Err("RlpIsTooShort")
  ELSE LET l == bytes[1]
       IN  IF l <= 127 THEN Ok(<<l>>)
           ELSE IF l <= 183
           THEN LET last_index_of == 1 + l - 128
                IN  IF Len(bytes) < last_index_of
                    THEN Err("RlpInconsistentLengthAndData")
                    ELSE IF l = 129 /\ bytes[2] < 128
                    THEN Err("RlpInvalidIndirection")
                    ELSE Ok(SubSeq(bytes, 2, last_index_of))
           ELSE IF l <= 191
           THEN LET begin_of_value == 1 + (l - 183)
                IN  IF Len(bytes) < begin_of_value
                    THEN Err("RlpInconsistentLengthAndData")
                    ELSE The({ IF ~len.ok THEN len
                               ELSE IF Len(bytes) < begin_of_value + len.v
                               THEN Err("RlpInconsistentLengthAndData")
                               ELSE Ok(SubSeq(bytes, begin_of_value + 1,
                                              begin_of_value + len.v))
                               : len \in {decode_usize(SubSeq(bytes, 2, begin_of_value))} })
           ELSE Err("RlpExpectedToBeData")

\* impl Decodable for RlpValue, and Rlp::as_list::<RlpValue>, which collects
\* the decoded items and returns the first error of an item.
RECURSIVE RlpValue_decode(_), collect_values(_, _)
RlpValue_decode(bytes) ==
  IF is_list(bytes)
  THEN The({ IF ~r.ok THEN r ELSE Ok(RlpList(r.v))
             : r \in {collect_values(Rlp_iter(bytes), 1)} })
  ELSE The({ IF ~r.ok THEN r ELSE Ok(RlpBytes(r.v))
             : r \in {decode_value(bytes)} })

collect_values(items, i) ==
  IF i > Len(items) THEN Ok(<<>>)
  ELSE The({ IF ~r.ok THEN r
             ELSE The({ IF ~rest.ok THEN rest ELSE Ok(<<r.v>> \o rest.v)
                        : rest \in {collect_values(items, i + 1)} })
             : r \in {RlpValue_decode(items[i])} })

Rlp_as_list(bytes) == collect_values(Rlp_iter(bytes), 1)

\* rlp_decode
rlp_decode(args) ==
  The({ IF ~res.ok THEN Err(InvalidMetaTransactionFunctionArg) ELSE res
        : res \in {Rlp_as_list(args)} })

(***************************************************************************)
(* EIP-712 hashing of one argument                                         *)
(***************************************************************************)
\* eip_712_rlp_value: the guard that value is Bytes; the bytes are handed on.
eip_712_rlp_value(value) ==
  IF value.k = "List" THEN Err(InvalidMetaTransactionFunctionArg)
  ELSE Ok(value.b)

\* eip_712_rlp_list: the guard that value is a List.
eip_712_rlp_list(value) ==
  IF value.k = "Bytes" THEN Err(InvalidMetaTransactionFunctionArg)
  ELSE Ok(value.l)

RECURSIVE eip_712_hash_argument(_, _, _), hash_elements(_, _, _, _),
          hash_fields(_, _, _, _)
eip_712_hash_argument(ty, value, types) ==
  CASE ty.k \in {"String", "Bytes"} ->
         The({ IF ~b.ok THEN b ELSE Ok(keccak256(b.v))
               : b \in {eip_712_rlp_value(value)} })
    [] ty.k = "Byte" ->
         The({ IF ~b.ok THEN b ELSE Ok(b.v)
               : b \in {eip_712_rlp_value(value)} })
    [] ty.k \in {"Uint", "Int", "Bool"} ->
         The({ IF ~b.ok THEN b
               ELSE The({ IF ~u.ok THEN u ELSE Ok(u256_to_arr(u.v))
                          : u \in {U256_from_big_endian(b.v)} })
               : b \in {eip_712_rlp_value(value)} })
    [] ty.k = "Address" ->
         The({ IF ~b.ok THEN b
               ELSE The({ IF ~a.ok THEN a ELSE Ok(encode_address(a.v))
                          : a \in {Address_from_slice(b.v)} })
               : b \in {eip_712_rlp_value(value)} })
    [] ty.k = "Array" ->
         The({ IF ~l.ok THEN l
               ELSE The({ IF ~r.ok THEN r ELSE Ok(keccak256(r.v))
                          : r \in {hash_elements(ty.inner, l.v, 1, types)} })
               : l \in {eip_712_rlp_list(value)} })
    [] ty.k = "Custom" ->
         The({ IF ~l.ok THEN l
               ELSE IF ty.name \notin DOMAIN types
               THEN Err(InvalidMetaTransactionFunctionArg)
               ELSE The({ IF ~r.ok THEN r
                          ELSE Ok(keccak256(keccak256(types[ty.name].raw) \o r.v))
                          : r \in {hash_fields(types[ty.name], l.v, 1, types)} })
               : l \in {eip_712_rlp_list(value)} })

\* for element in l { r.extend_from_slice(&eip_712_hash_argument(inner, element, types)?) }
hash_elements(inner, l, i, types) ==
  IF i > Len(l) THEN Ok(<<>>)
  ELSE The({ IF ~h.ok THEN h
             ELSE The({ IF ~rest.ok THEN rest ELSE Ok(h.v \o rest.v)
                        : rest \in {hash_elements(inner, l, i + 1, types)} })
             : h \in {eip_712_hash_argument(inner, l[i], types)} })

\* for (i, element) in l.iter().enumerate() { ... &struct_type.args[i].t ... }
\* indexing args past its end panics.
hash_fields(struct_type, l, i, types) ==
  IF i > Len(l) THEN Ok(<<>>)
  ELSE IF i > Len(struct_type.args) THEN Abort
  ELSE The({ IF ~h.ok THEN h
             ELSE The({ IF ~rest.ok THEN rest ELSE Ok(h.v \o rest.v)
                        : rest \in {hash_fields(struct_type, l, i + 1, types)} })
             : h \in {eip_712_hash_argument(struct_type.args[i].t, l[i], types)} })

(***************************************************************************)
(* near_erc712_domain and prepare_meta_call_args                           *)
(***************************************************************************)
EIP712DomainText ==
  Str(<<"E","I","P","7","1","2","D","o","m","a","i","n","(","s","t","r","i","n",
    "g"," ","n","a","m","e",",","s","t","r","i","n","g"," ","v","e","r","s",
    "i","o","n",",","u","i","n","t","2","5","6"," ","c","h","a","i","n","I",
    "d",")">>)

NearTxText ==
  Str(<<"N","e","a","r","T","x","(","s","t","r","i","n","g"," ","g","a","t","e",
    "w","a","y","I","d",",","u","i","n","t","2","5","6"," ","n","o","n","c",
    "e",",","u","i","n","t","2","5","6"," ","f","e","e","A","m","o","u","n",
    "t",",","a","d","d","r","e","s","s"," ","f","e","e","R","e","c","e","i",
    "v","e","r",",","a","d","d","r","e","s","s"," ","r","e","c","e","i","v",
    "e","r",",","u","i","n","t","2","5","6"," ","v","a","l","u","e",",","s",
    "t","r","i","n","g"," ","m","e","t","h","o","d",",","A","r","g","u","m",
    "e","n","t","s"," ","a","r","g","u","m","e","n","t","s",")">>)

U256_from_u64(n) == <<n>> \o Zeros(31)       \* for n < 256

near_erc712_domain(chain_id) ==
  arr_to_u256(keccak256(keccak256(EIP712DomainText)
                        \o keccak256(Str(<<"N","E","A","R">>))
                        \o keccak256(Str(<<"1">>))
                        \o u256_to_arr(chain_id)))

\* text.find(c): the 0-based index of the first c, or -1.
Find(text, c) ==
  IF \E i \in 1..Len(text) : text[i] = c
  THEN (CHOOSE i \in 1..Len(text) :
          text[i] = c /\ \A j \in 1..(i - 1) : text[j] # c) - 1
  ELSE -1

\* for (i, arg) in args_decoded.iter().enumerate() { ... methods.method.args[i].t ... }
RECURSIVE hash_arguments(_, _, _)
hash_arguments(methods, args_decoded, i) ==
  IF i > Len(args_decoded) THEN Ok(<<>>)
  ELSE The({ IF ~h.ok THEN h
             ELSE The({ IF ~rest.ok THEN rest ELSE Ok(h.v \o rest.v)
                        : rest \in {hash_arguments(methods, args_decoded, i + 1)} })
             : h \in {eip_712_hash_argument(methods.method.args[i].t,
                                             args_decoded[i], methods.types)} })

\* The `arguments` text of prepare_meta_call_args.
arguments_text(method_name) ==
  IF method_name = <<>> THEN Ok(Str(<<"A","r","g","u","m","e","n","t","s","(",")">>))
  ELSE LET method_arg_start == Find(method_name, Ord("("))
       IN  IF method_arg_start < 0 THEN Err(InvalidMetaTransactionMethodName)
           ELSE Ok(Str(<<"A","r","g","u","m","e","n","t","s">>)
                   \o Tail2(method_name, method_arg_start))

\* A variant of check_args_length that lets a shorter list of values pass.
check_args_length_at_most(methods, args_decoded) ==
  IF Len(methods.method.args) < Len(args_decoded)
  THEN Err(ArgsLengthMismatch)
  ELSE Ok(args_decoded)

\* if methods.method.args.len() != args_decoded.len() { return Err(..) }
check_args_length(methods, args_decoded) ==
  IF Len(methods.method.args) # Len(args_decoded)
  THEN Err(ArgsLengthMismatch)
  ELSE Ok(args_decoded)

\* The fields of the message struct written before the method is parsed.
message_head(account_id, input, arguments) ==
  keccak256(NearTxText \o arguments)
    \o keccak256(account_id)
    \o u256_to_arr(input.nonce)
    \o u256_to_arr(U256_from_u128(input.fee_amount))
    \o keccak256(input.fee_address)
    \o keccak256(input.contract_address)
    \o u256_to_arr(U256_from_u128(input.value))

\* The branch of a non-empty method_name: what it appends to `bytes`, and
\* the (method_name, arg_bytes) it yields.
encode_arguments(input, arguments) ==
  The({ IF ~m.ok THEN m ELSE
        The({ IF ~d.ok THEN d ELSE
              The({ IF ~c.ok THEN c ELSE
                    The({ IF ~h.ok THEN h ELSE
                          Ok([appended |-> keccak256(method_signature(m.v))
                                           \o keccak256(keccak256(arguments) \o h.v),
                              method_name |-> m.v.method.name,
                              arg_bytes |-> keccak256(arguments) \o h.v])
                          : h \in {hash_arguments(m.v, c.v, 1)} })
                    : c \in {check_args_length(m.v, d.v)} })
              : d \in {rlp_decode(input.args)} })
        : m \in {MethodAndTypes_parse(input.method_name)} })

\* The first part of prepare_meta_call_args, up to the point where the
\* buffer `bytes` holds the encoding of the message struct.
encode_message(account_id, input) ==
  The({ IF ~a.ok THEN a
        ELSE IF input.method_name # <<>>
        THEN The({ IF ~e.ok THEN e
                   ELSE Ok([bytes |-> message_head(account_id, input, a.v)
                                      \o e.v.appended,
                            method_name |-> e.v.method_name,
                            arg_bytes |-> e.v.arg_bytes])
                   : e \in {encode_arguments(input, a.v)} })
        ELSE Ok([bytes |-> message_head(account_id, input, a.v),
                 method_name |-> <<>>, arg_bytes |-> <<>>])
        : a \in {arguments_text(input.method_name)} })

\* The end of prepare_meta_call_args: `let mut bytes = Vec::with_capacity(..)`
\* declares a new, empty buffer named bytes, and keccak256(&bytes) is taken
\* of that new buffer after 0x19 0x01 and the domain separator were pushed.
signing_digest(domain_separator, message_bytes) ==
  LET bytes1 == <<25, 1>> \o domain_separator
      bytes2 == bytes1 \o keccak256(bytes1)
  IN  arr_to_u256(keccak256(bytes2))

prepare_meta_call_args(domain_separator, account_id, input) ==
  The({ IF ~e.ok THEN e
        ELSE Ok([msg |-> signing_digest(domain_separator, e.v.bytes),
                 method_name |-> e.v.method_name,
                 arg_bytes |-> e.v.arg_bytes])
        : e \in {encode_message(account_id, input)} })

(***************************************************************************)
(* Borsh encoding of MetaCallArgs (types.rs)                               *)
(***************************************************************************)
\* u32, little-endian.
u32_le(n) == <<n % 256, (n \div 256) % 256, (n \div 65536) % 256, n \div 16777216>>

\* The value of 4 little-endian bytes; values above LenCap read as LenCap.
read_u32_le(b) ==
  IF b[4] # 0 \/ b[3] > 15 THEN LenCap ELSE b[1] + 256 * b[2] + 65536 * b[3]

\* core::str::from_utf8: is the byte string well-formed UTF-8.
RECURSIVE IsUtf8(_)
IsUtf8(b) ==
  IF b = <<>> THEN TRUE
  ELSE LET c == b[1]
           Cont(i) == Len(b) >= i /\ b[i] \in 128..191
       IN  IF c <= 127 THEN IsUtf8(Tail(b))
           ELSE IF c \in 194..223 THEN Cont(2) /\ IsUtf8(Tail2(b, 2))
           ELSE IF c \in 224..239
           THEN /\ Cont(2) /\ Cont(3)
                /\ (c = 224 => b[2] >= 160)
                /\ (c = 237 => b[2] <= 159)
                /\ IsUtf8(Tail2(b, 3))
           ELSE IF c \in 240..244
           THEN /\ Cont(2) /\ Cont(3) /\ Cont(4)
                /\ (c = 240 => b[2] >= 144)
                /\ (c = 244 => b[2] <= 143)
                /\ IsUtf8(Tail2(b, 4))
           ELSE FALSE

\* BorshSerialize for MetaCallArgs (try_to_vec).
borsh_bytes(b) == u32_le(Len(b)) \o b

try_to_vec(m) ==
  m.signature \o <<m.v>> \o m.nonce \o m.fee_amount
    \o borsh_bytes(m.fee_address) \o borsh_bytes(m.contract_address)
    \o m.value \o borsh_bytes(m.method) \o borsh_bytes(m.args)

\* Reading from a buffer: Ok(<<value, rest>>) or an error at end of input.
read_fixed(buf, n) ==
  IF Len(buf) < n THEN Err("UnexpectedEof")
  ELSE Ok(<<Head2(buf, n), Tail2(buf, n)>>)

read_vec(buf) ==
  The({ IF ~l.ok THEN l ELSE read_fixed(l.v[2], read_u32_le(l.v[1]))
        : l \in {read_fixed(buf, 4)} })

read_string(buf) ==
  The({ IF ~r.ok THEN r
        ELSE IF ~IsUtf8(r.v[1]) THEN Err("InvalidUtf8") ELSE r
        : r \in {read_vec(buf)} })

\* The fields of MetaCallArgs in the order of the struct, with how each is read.
MetaCallArgsFields ==
  << <<"signature", "64">>, <<"v", "1">>, <<"nonce", "32">>, <<"fee_amount", "32">>,
     <<"fee_address", "String">>, <<"contract_address", "String">>,
     <<"value", "32">>, <<"method", "String">>, <<"args", "Vec">> >>

read_field(buf, how) ==
  CASE how = "64" -> read_fixed(buf, 64)
    [] how = "32" -> read_fixed(buf, 32)
    [] how = "1" -> read_fixed(buf, 1)
    [] how = "String" -> read_string(buf)
    [] how = "Vec" -> read_vec(buf)

\* The derived BorshDeserialize: the fields from the i-th on, read in order
\* into the record got; Ok(<<record, rest>>) or the first error.
RECURSIVE read_fields(_, _, _)
read_fields(buf, i, got) ==
  IF i > Len(MetaCallArgsFields) THEN Ok(<<got, buf>>)
  ELSE The({ IF ~r.ok THEN r
             ELSE read_fields(r.v[2], i + 1,
                              MapInsert(got, MetaCallArgsFields[i][1], r.v[1]))
             : r \in {read_field(buf, MetaCallArgsFields[i][2])} })

\* try_from_slice: the fields in order; fails when bytes are left over.
try_from_slice(buf) ==
  The({ IF ~r.ok THEN r
        ELSE IF r.v[2] # <<>> THEN Err("NotAllBytesRead")
        ELSE Ok([r.v[1] EXCEPT !.v = r.v[1].v[1]])
        : r \in {read_fields(buf, 1, EmptyMap)} })

(***************************************************************************)
(* Wallets and signatures.  secp256k1 is modelled by what it guarantees:   *)
(* a signature made by a wallet over a digest recovers to that wallet's    *)
(* key for that digest and the recovery id it was made with, and to no     *)
(* wallet's key otherwise.  The wallets sign as the test's                 *)
(* encode_meta_call_function_args does: the digest returned by             *)
(* prepare_meta_call_args for the call, with chain id 1 and account id     *)
(* "gateway".                                                              *)
(***************************************************************************)
Wallets == {1, 2}

MaxNonce == 3

CHAIN_ID == 1

\* env::current_account_id() of the deployed gateway ("test" in test_basics).
current_account_id == Str(<<"t","e","s","t">>)

WalletAccountId == Str(<<"g","a","t","e","w","a","y">>)

U128(n) == <<n>> \o Zeros(15)                \* a u128 below 256
RawU256_of(n) == Zeros(31) \o <<n>>          \* u256_to_arr(&U256::from(n)), n < 256

\* The calls a wallet signs (Wallet::message), with the methods and
\* arguments of test_basics: "create()", then the empty method, then
\* "test_call(bytes args)" with one byte-string argument.
WalletCall(nonce, method, args) ==
  [sender |-> Address_zero,
   nonce |-> U256_from_u64(nonce),
   fee_amount |-> U128(5),
   fee_address |-> Str(<<"t","o","k","e","n">>),
   contract_address |-> Str(<<"u","s","e","r","2">>),
   method_name |-> method,
   value |-> U128(1),
   args |-> args]

MethodCreate == Str(<<"c","r","e","a","t","e","(",")">>)

MethodTestCall ==
  Str(<<"t","e","s","t","_","c","a","l","l","(","b","y","t","e","s"," ",
        "a","r","g","s",")">>)

\* rlp::encode_list::<Vec<u8>, _>(&[args]) for the two bytes "{}".
TestCallArgs == <<195, 130, 123, 125>>

\* SignedCalls[nonce + 1] is the call a wallet signs with that nonce.
SignedCalls ==
  [i \in 1..MaxNonce |->
     CASE i % 3 = 1 -> WalletCall(i - 1, MethodCreate, <<>>)
       [] i % 3 = 2 -> WalletCall(i - 1, <<>>, <<>>)
       [] OTHER -> WalletCall(i - 1, MethodTestCall, TestCallArgs)]

\* The digest a wallet signs for SignedCalls[idx].
SignedDigest(idx) ==
  prepare_meta_call_args(near_erc712_domain(U256_from_u64(CHAIN_ID)),
                         WalletAccountId, SignedCalls[idx]).v.msg

\* The recovery id of the signature of wallet key over SignedCalls[idx].
RecIdOf(key, idx) == (key + idx) % 2

\* The 64 bytes (r, s) of that signature: they name the key and the call.
Sign(key, idx) == <<key, idx, RecIdOf(key, idx)>> \o Zeros(61)

IsWalletSignature(sig) ==
  /\ sig[1] \in Wallets
  /\ sig[2] \in 1..Len(SignedCalls)
  /\ sig = Sign(sig[1], sig[2])

\* The 64-byte public key of a wallet, without the 0x04 prefix.
PublicKey(key) == <<key>> \o Zeros(63)

\* secp256k1::recover: the public key, or an error.  Bytes that are nobody's
\* signature recover to nothing; a wallet's signature checked against another
\* digest or with the other recovery id recovers to a key that is no
\* wallet's; recovery ids 2 and 3 fail.
secp256k1_recover(hash, sig, recovery_id) ==
  IF ~IsWalletSignature(sig) \/ recovery_id > 1 THEN Err("InvalidSignature")
  ELSE IF SignedDigest(sig[2]) = hash /\ recovery_id = RecIdOf(sig[1], sig[2])
  THEN Ok(PublicKey(sig[1]))
  ELSE Ok(<<0>> \o Head2(sig, 3) \o <<recovery_id>> \o hash)

\* Address::from_slice(&r[12..]) for r = keccak256(data): the low 20 bytes
\* of the hash, again a block, with brackets of its own.
AddressOpen == 258
AddressClose == 259
Low20(r) == <<AddressOpen>> \o SubSeq(r, 2, Len(r) - 1) \o <<AddressClose>>

\* ecrecover (ecrecover.rs)
ecrecover(hash, signature) ==
  IF Len(signature) # 65 THEN Abort
  ELSE LET v == signature[65]
           bit == IF v <= 26 THEN v ELSE v - 27
       IN  IF bit >= 4 THEN Err("unit")                \* RecoveryId::parse
           ELSE The({ IF ~public_key.ok THEN Err("unit")
                      ELSE Ok(Low20(keccak256(public_key.v)))
                      : public_key \in {secp256k1_recover(hash, Head2(signature, 64),
                                                          bit)} })

WalletAddress(key) == Low20(keccak256(PublicKey(key)))

(***************************************************************************)
(* parse_meta_call, step by step                                           *)
(***************************************************************************)
\* MetaCallArgs::try_from_slice(&args).map_err(|_| ArgumentParseError)
decode_envelope(args) ==
  The({ IF ~r.ok THEN Err(ArgumentParseError) ELSE r
        : r \in {try_from_slice(args)} })

\* A variant of widen that fills in a sender before the signature is checked.
widen_naming_sender(tx) ==
  Ok([sender |-> Head2(tx.signature, 20),
      nonce |-> U256_from_arr(tx.nonce),
      fee_amount |-> Head2(Reverse(tx.fee_amount), 16),
      fee_address |-> tx.fee_address,
      contract_address |-> tx.contract_address,
      method_name |-> tx.method,
      value |-> Head2(Reverse(tx.value), 16),
      args |-> tx.args])

\* Lines 478-491: the widened fields and the record with sender unset.
widen(tx) ==
  LET fee_amount == U256_as_u128(U256_from_arr(tx.fee_amount))
      value == U256_as_u128(U256_from_arr(tx.value))
  IN  IF ~fee_amount.ok THEN fee_amount
      ELSE IF ~value.ok THEN value
      ELSE Ok([sender |-> Address_zero,
               nonce |-> U256_from_arr(tx.nonce),
               fee_amount |-> fee_amount.v,
               fee_address |-> tx.fee_address,
               contract_address |-> tx.contract_address,
               method_name |-> tx.method,
               value |-> value.v,
               args |-> tx.args])

\* Lines 493-496 and the Err arm: the 65-byte signature and ecrecover.
recover_sender(msg, tx) ==
  The({ IF sender.ok THEN sender
        ELSE IF sender = Abort THEN Abort
        ELSE Err(InvalidEcRecoverSignature)
        : sender \in {ecrecover(msg, tx.signature \o <<tx.v>>)} })

\* A variant of populate that leaves the arguments as they were sent.
populate_keeping_args(record, sender, prep) ==
  [record EXCEPT !.sender = sender, !.method_name = prep.method_name]

\* The Ok arm: sender, method_name and args of the record are set.
populate(record, sender, prep) ==
  [record EXCEPT !.sender = sender,
                 !.method_name = prep.method_name,
                 !.args = prep.arg_bytes]

parse_meta_call(domain_separator, account_id, args) ==
  The({ IF ~m.ok THEN m ELSE
        The({ IF ~r.ok THEN r ELSE
              The({ IF ~p.ok THEN p ELSE
                    The({ IF ~sender.ok THEN sender
                          ELSE Ok(populate(r.v, sender.v, p.v))
                          : sender \in {recover_sender(p.v.msg, m.v)} })
                    : p \in {prepare_meta_call_args(domain_separator, account_id,
                                                    r.v)} })
              : r \in {widen(m.v)} })
        : m \in {decode_envelope(args)} })

(***************************************************************************)
(* The payloads sent to the gateway                                        *)
(***************************************************************************)
\* The envelope a wallet sends for SignedCalls[idx] (the MetaCallArgs built
\* by encode_meta_call_function_args, v = recovery id + 27).
WalletEnvelope(key, idx) ==
  LET c == SignedCalls[idx]
  IN  [signature |-> Sign(key, idx),
       v |-> RecIdOf(key, idx) + 27,
       nonce |-> u256_to_arr(c.nonce),
       fee_amount |-> u256_to_arr(U256_from_u128(c.fee_amount)),
       fee_address |-> c.fee_address,
       contract_address |-> c.contract_address,
       value |-> u256_to_arr(U256_from_u128(c.value)),
       method |-> c.method_name,
       args |-> c.args]

\* The payloads of the wallets, wallet by wallet and nonce by nonce.
WalletPayloadNumber(key, idx) == (key - 1) * Len(SignedCalls) + idx

WalletPayloads ==
  [n \in 1..(Cardinality(Wallets) * Len(SignedCalls)) |->
     try_to_vec(WalletEnvelope(((n - 1) \div Len(SignedCalls)) + 1,
                               ((n - 1) % Len(SignedCalls)) + 1))]

\* Envelopes nobody's wallet built, all made from wallet 1's first envelope.
E0 == WalletEnvelope(1, 1)

TwoPow128 == Zeros(15) \o <<1>> \o Zeros(16)     \* 2^128 as RawU256

ForgedEnvelopes ==
  << [E0 EXCEPT !.nonce = RawU256_of(1)],                \* same signature, nonce 1
     [E0 EXCEPT !.v = RecIdOf(1, 1)],                    \* v given as 0 or 1
     [E0 EXCEPT !.v = (1 - RecIdOf(1, 1)) + 27],         \* the other recovery id
     [E0 EXCEPT !.v = 31],                               \* recovery id 4
     [E0 EXCEPT !.signature = Zeros(64)],                \* nobody's signature
     [E0 EXCEPT !.fee_amount = TwoPow128],               \* does not fit u128
     [E0 EXCEPT !.method = Str(<<"f","(">>)],            \* no method grammar
     [E0 EXCEPT !.args = <<193, 1>>],                    \* 1 value, 0 arguments
     [E0 EXCEPT !.fee_address = <<255>>] >>              \* not UTF-8

ForgedPayloads == [i \in 1..Len(ForgedEnvelopes) |-> try_to_vec(ForgedEnvelopes[i])]

MalformedPayloads ==
  << Head2(try_to_vec(E0), Len(try_to_vec(E0)) - 1),     \* truncated
     try_to_vec(E0) \o <<0>>,                            \* a byte left over
     <<>> >>

\* The byte strings sent to the gateway.  A call is given the number of its
\* byte string in this list, and the state names a message by that number.
Payloads == WalletPayloads \o ForgedPayloads \o MalformedPayloads

Messages == 1..Len(Payloads)

(***************************************************************************)
(* The gateway contract (lib.rs)                                           *)
(***************************************************************************)
VARIABLES
  nonces,       \* Contract.nonces: LookupMap<RawAddress, RawU256>
  last,         \* the last call: method, message, outcome, sender, promise
  accepted,     \* history: the messages of the calls that returned a promise
  calls,        \* history: per sender, the number of such calls
  pc,           \* parse_meta_call: the statement reached
  wire,         \* parse_meta_call: its argument args
  meta_tx,      \* parse_meta_call: the decoded envelope (a Result)
  result,       \* parse_meta_call: the record being built, <<>> before
  prepared,     \* parse_meta_call: what prepare_meta_call_args returned
  ret,          \* parse_meta_call: what the call ends with
  op,           \* a single function applied on its own: which one
  arg,          \* its arguments
  out           \* its result, Pending before it is applied

contractVars == <<nonces, last, accepted, calls>>
parseVars == <<pc, wire, meta_tx, result, prepared, ret>>
fnVars == <<op, arg, out>>
vars == <<nonces, last, accepted, calls, pc, wire, meta_tx, result, prepared, ret,
          op, arg, out>>

DomainSeparator == near_erc712_domain(U256_from_u64(CHAIN_ID))

\* parse_meta_call on payload number m, with the gateway's domain and account.
Parsed ==
  [m \in Messages |->
     parse_meta_call(DomainSeparator, current_account_id, Payloads[m])]

\* A variant of stored_nonce that reads every counter as the nonce after it.
stored_nonce_ahead(map, key) ==
  IF key \in DOMAIN map THEN IncLE(U256_from_arr(map[key])) ELSE U256_zero

\* self.nonces.get(&args.sender.0).map(|value| U256::from(value)).unwrap_or_default()
stored_nonce(map, key) ==
  IF key \in DOMAIN map THEN U256_from_arr(map[key]) ELSE U256_zero

\* parse_message: Ok(<<args, the new nonces>>), or the panic it ends with.
parse_message(map, message) ==
  The({ IF args = Abort THEN [ok |-> FALSE, err |-> "abort"]
        ELSE IF ~args.ok THEN [ok |-> FALSE, err |-> "ERR_META_TX_PARSE"]
        ELSE The({ IF args.v.nonce # nonce
                   THEN [ok |-> FALSE, err |-> "ERR_INCORRECT_NONCE"]
                   ELSE The({ IF ~next.ok THEN [ok |-> FALSE, err |-> "abort"]
                              ELSE Ok(<<args.v, MapInsert(map, args.v.sender,
                                                          u256_to_arr(next.v))>>)
                              : next \in {U256_add_one(nonce)} })
                   : nonce \in {stored_nonce(map, args.v.sender)} })
        : args \in {Parsed[message]} })

\* format!("{}.{}", hex::encode(args.sender), env::current_account_id())
HexOpen == 260
HexClose == 261
hex_encode(b) == <<HexOpen>> \o b \o <<HexClose>>
sub_account_id(sender) == hex_encode(sender) \o <<Ord(".")>> \o current_account_id

Deposits == {0, 5}

NoPromise == <<>>

ContractInit ==
  /\ nonces = EmptyMap
  /\ last = [method |-> "new", message |-> 0, outcome |-> "ok",
             sender |-> <<>>, promise |-> NoPromise]
  /\ accepted = {}
  /\ calls = EmptyMap

\* A variant of Rejected in which a failed call empties the nonce map.
RejectedClearing(method, message, err) ==
  /\ last' = [method |-> method, message |-> message, outcome |-> err,
              sender |-> <<>>, promise |-> NoPromise]
  /\ nonces' = EmptyMap
  /\ UNCHANGED <<accepted, calls>>

\* A call that panics changes nothing: the runtime drops the state changes
\* of a failed call, and no promise was created.
Rejected(method, message, err) ==
  /\ last' = [method |-> method, message |-> message, outcome |-> err,
              sender |-> <<>>, promise |-> NoPromise]
  /\ UNCHANGED <<nonces, accepted, calls>>

Returned(method, message, args, map, promise) ==
  /\ nonces' = map
  /\ last' = [method |-> method, message |-> message, outcome |-> "ok",
              sender |-> args.sender, promise |-> <<promise>>]
  /\ accepted' = accepted \cup {message}
  /\ calls' = MapInsert(calls, args.sender,
                        IF args.sender \in DOMAIN calls THEN calls[args.sender] + 1
                        ELSE 1)

\* pub fn create(&mut self, message: Base64VecU8) -> Promise
create(message, attached_deposit) ==
  \E r \in {parse_message(nonces, message)} :
    IF ~r.ok THEN Rejected("create", message, r.err)
    ELSE Returned("create", message, r.v[1], r.v[2],
                  [account_id |-> sub_account_id(r.v[1].sender),
                   actions |-> <<"create_account", "deploy_contract",
                                 <<"transfer", attached_deposit>>>>])

\* pub fn proxy(&mut self, message: Base64VecU8) -> Promise
proxy(message) ==
  \E r \in {parse_message(nonces, message)} :
    IF ~r.ok THEN Rejected("proxy", message, r.err)
    ELSE Returned("proxy", message, r.v[1], r.v[2],
                  [account_id |-> sub_account_id(r.v[1].sender),
                   actions |-> <<<<"function_call",
                                   Str(<<"t","r","a","n","s","f","e","r">>),
                                   r.v[1].value \o r.v[1].contract_address>>>>])

Create ==
  /\ \E message \in Messages, d \in Deposits : create(message, d)
  /\ UNCHANGED <<parseVars, fnVars>>

Proxy ==
  /\ \E message \in Messages : proxy(message)
  /\ UNCHANGED <<parseVars, fnVars>>

Pending == [ok |-> FALSE, err |-> "pending"]

ParseIdle ==
  /\ pc = "idle"
  /\ wire = <<>>
  /\ meta_tx = Pending
  /\ result = <<>>
  /\ prepared = Pending
  /\ ret = Pending

FnIdle ==
  /\ op = "none"
  /\ arg = <<>>
  /\ out = Pending

Init == ContractInit /\ ParseIdle /\ FnIdle
Next == Create \/ Proxy
Spec == Init /\ [][Next]_vars

(***************************************************************************)
(* Properties of the gateway contract                                      *)
(***************************************************************************)
\* The U256 read from a stored counter, 0 without an entry.
Counter(map, s) == IF s \in DOMAIN map THEN U256_from_arr(map[s]) ELSE U256_zero

\* The call of this step returned a promise.
Accepts == last'.outcome = "ok" /\ last'.promise # NoPromise

\* C2: a payload that was accepted before is rejected with
\* ERR_INCORRECT_NONCE whenever it is submitted again, by create or proxy and
\* whatever calls came between; a payload that parses, was not accepted before
\* and carries the nonce the sender's counter holds is accepted.
C2_ReplayRejected ==
  [][ /\ (last'.message \in accepted => last'.outcome = "ERR_INCORRECT_NONCE")
      /\ (/\ last'.message \notin accepted
          /\ Parsed[last'.message].ok
          /\ Parsed[last'.message].v.nonce
               = Counter(nonces, Parsed[last'.message].v.sender)
          => Accepts /\ last'.message \in accepted') ]_vars

\* A payload accepted earlier has just been submitted again and rejected.
C2_Witness ==
  /\ last.message \in accepted
  /\ last.outcome = "ERR_INCORRECT_NONCE"
  /\ last.method \in {"create", "proxy"}

\* C3: a call is accepted only if its nonce equals the stored counter of the
\* recovered sender (0 without an entry); an accepted call sets that counter
\* to nonce + 1; each sender's counter equals the number of calls accepted
\* for it; and the call a wallet signed with nonce n is accepted when the
\* wallet's counter is n, so nonces 0, 1, 2, ... sent in order all pass.
C3_StrictSequence ==
  [][ /\ (Accepts =>
            /\ Parsed[last'.message].ok
            /\ last'.sender = Parsed[last'.message].v.sender
            /\ Parsed[last'.message].v.nonce = Counter(nonces, last'.sender)
            /\ Counter(nonces', last'.sender)
                 = IncLE(Parsed[last'.message].v.nonce))
      /\ DOMAIN nonces' = DOMAIN calls'
      /\ \A s \in DOMAIN nonces' : nonces'[s] = RawU256_of(calls'[s])
      /\ \A key \in Wallets, idx \in 1..Len(SignedCalls) :
            (/\ last'.message = WalletPayloadNumber(key, idx)
             /\ Counter(nonces, WalletAddress(key)) = U256_from_u64(idx - 1))
            => Accepts /\ last'.sender = WalletAddress(key) ]_vars

\* Wallet 1 had each of its calls accepted in the order of their nonces, the
\* last one just now.
C3_Witness ==
  /\ WalletAddress(1) \in DOMAIN calls
  /\ calls[WalletAddress(1)] = Len(SignedCalls)
  /\ last.outcome = "ok"
  /\ last.sender = WalletAddress(1)

\* C4: a rejected call (parse error or nonce mismatch) leaves the nonce map
\* as it was and creates no promise; an accepted call changes the counter of
\* the recovered sender and of nobody else.
C4_Frame ==
  [][ /\ (last'.outcome \in {"ERR_META_TX_PARSE", "ERR_INCORRECT_NONCE"} =>
            nonces' = nonces /\ last'.promise = NoPromise)
      /\ (Accepts =>
            /\ DOMAIN nonces' = DOMAIN nonces \cup {last'.sender}
            /\ \A s \in DOMAIN nonces : s # last'.sender => nonces'[s] = nonces[s]
            /\ Counter(nonces', last'.sender) # Counter(nonces, last'.sender)) ]_vars

\* Both kinds of rejection happened with a counter stored, and a call was
\* accepted while another sender had a counter.
C4_Witness ==
  /\ last.outcome = "ERR_INCORRECT_NONCE"
  /\ Cardinality(DOMAIN nonces) = 2

(***************************************************************************)
(* parse_meta_call as a sequence of steps                                  *)
(***************************************************************************)
Method_f_address == Str(<<"f","(","a","d","d","r","e","s","s"," ","a",")">>)
Method_f_uint == Str(<<"f","(","u","i","n","t","2","5","6"," ","x",",","b","o","o","l"," ","b",
    ")">>)
Method_adopt ==
  Str(<<"a","d","o","p","t","(","u","i","n","t","2","5","6"," ","p","e","t","I",
    "d",",","P","e","t","O","b","j"," ","p","e","t","O","b","j",")","P","e",
    "t","O","b","j","(","s","t","r","i","n","g"," ","n","a","m","e",")">>)
Method_undeclared == Str(<<"g","(","P","e","t","O","b","j","[","]"," ","p","e","t","s",")">>)

Bytes33 == <<161>> \o Zeros(33)              \* RLP of a 33-byte string
Bytes20 == <<148>> \o Zeros(20)              \* RLP of a 20-byte string

\* Envelopes with arguments, all with wallet 1's first signature.
ArgumentEnvelopes ==
  { [E0 EXCEPT !.method = Method_f_address, !.args = <<196, 131, 1, 2, 3>>],
    [E0 EXCEPT !.method = Method_f_address, !.args = <<213>> \o Bytes20],
    [E0 EXCEPT !.method = Method_f_address, !.args = <<193, 192>>],
    [E0 EXCEPT !.method = Method_f_uint, !.args = <<227>> \o Bytes33 \o <<1>>],
    [E0 EXCEPT !.method = Method_f_uint, !.args = <<193, 7>>],
    [E0 EXCEPT !.method = Method_f_uint, !.args = <<194, 129, 7>>],
    [E0 EXCEPT !.method = Method_adopt, !.args = <<195, 5, 193, 65>>],
    [E0 EXCEPT !.method = Method_adopt, !.args = <<196, 5, 194, 65, 66>>],
    [E0 EXCEPT !.method = Method_adopt, !.args = <<194, 5, 192>>],
    [E0 EXCEPT !.method = Method_undeclared, !.args = <<193, 192>>],
    [E0 EXCEPT !.method = Method_undeclared, !.args = <<195, 194, 192, 192>>],
    [E0 EXCEPT !.method = MethodTestCall, !.args = TestCallArgs],
    [E0 EXCEPT !.method = MethodTestCall, !.args = <<>>],
    [E0 EXCEPT !.value = TwoPow128],
    [E0 EXCEPT !.fee_amount = RawU256_of(7), !.value = Zeros(16) \o <<1, 2>> \o Zeros(14),
               !.fee_address = Str(<<"f","e","e">>), !.contract_address = <<>>],
    [E0 EXCEPT !.nonce = <<9>> \o Zeros(31), !.method = MethodTestCall,
               !.args = TestCallArgs] }

Wires == {Payloads[m] : m \in Messages} \cup {try_to_vec(e) : e \in ArgumentEnvelopes}

ParseInit ==
  /\ pc = "decode"
  /\ wire \in Wires
  /\ meta_tx = Pending
  /\ result = <<>>
  /\ prepared = Pending
  /\ ret = Pending

\* Leaving parse_meta_call with r: a returned Result, or a panic.
Leave(r) == pc' = "done" /\ ret' = r

\* let meta_tx = MetaCallArgs::try_from_slice(&args).map_err(..)?;
Decode ==
  /\ pc = "decode"
  /\ meta_tx' = decode_envelope(wire)
  /\ IF meta_tx'.ok THEN pc' = "widen" /\ ret' = ret ELSE Leave(meta_tx')
  /\ UNCHANGED <<wire, result, prepared>>

\* let nonce = ..; let fee_amount = ..; let value = ..; let mut result = ..;
Widen ==
  /\ pc = "widen"
  /\ LET r == widen(meta_tx.v)
     IN  IF r.ok THEN result' = r.v /\ pc' = "prepare" /\ ret' = ret
         ELSE result' = result /\ Leave(r)
  /\ UNCHANGED <<wire, meta_tx, prepared>>

\* let (msg, method_name, input) = prepare_meta_call_args(..)?;
Prepare ==
  /\ pc = "prepare"
  /\ prepared' = prepare_meta_call_args(DomainSeparator, current_account_id, result)
  /\ IF prepared'.ok THEN pc' = "recover" /\ ret' = ret ELSE Leave(prepared')
  /\ UNCHANGED <<wire, meta_tx, result>>

\* match ecrecover(..) { Ok(sender) => { .. Ok(result) } Err(_) => Err(..) }
Recover ==
  /\ pc = "recover"
  /\ LET sender == recover_sender(prepared.v.msg, meta_tx.v)
     IN  IF sender.ok
         THEN /\ result' = populate(result, sender.v, prepared.v)
              /\ Leave(Ok(result'))
         ELSE result' = result /\ Leave(sender)
  /\ UNCHANGED <<wire, meta_tx, prepared>>

ParseNext ==
  \/ Decode /\ UNCHANGED <<contractVars, fnVars>>
  \/ Widen /\ UNCHANGED <<contractVars, fnVars>>
  \/ Prepare /\ UNCHANGED <<contractVars, fnVars>>
  \/ Recover /\ UNCHANGED <<contractVars, fnVars>>

InitParse == ParseInit /\ ContractInit /\ FnIdle
SpecParse == InitParse /\ [][ParseNext]_vars

(***************************************************************************)
(* Properties of parse_meta_call                                           *)
(***************************************************************************)
\* C5: parse_meta_call ends with a populated record or with one of the five
\* typed errors, never with an abort.
C5_NoAbort == pc = "done" => (ret.ok \/ ret.err \in ParsingError)

\* What ecrecover answers for the digest and the signature at hand.
Recovered == ecrecover(prepared.v.msg, meta_tx.v.signature \o <<meta_tx.v.v>>)

MaxRlpLen == 3

\* One header byte of each RLP form that fits MaxRlpLen, and a data byte.
RlpAlphabet == {1, 128, 129, 130, 192, 193, 194}

RECURSIVE SeqsUpTo(_, _)
SeqsUpTo(S, n) ==
  IF n = 0 THEN {<<>>}
  ELSE LET shorter == SeqsUpTo(S, n - 1)
       IN  shorter \cup {Append(q, e) : q \in {t \in shorter : Len(t) = n - 1}, e \in S}

RlpInputs == SeqsUpTo(RlpAlphabet, MaxRlpLen)

\* Method texts.
MethodTexts ==
  { MethodCreate, MethodTestCall, Method_f_address, Method_f_uint, Method_adopt,
    Method_undeclared,
    Str(<<"h","(","P","e","t","O","b","j"," ","p",")">>),
    Str(<<"k","(","O","w","n","e","r"," ","o",")","O","w","n","e","r","(","P",
      "e","t","O","b","j"," ","p",")">>),
    Str(<<"a","(","u","i","n","t","2","5","6","[","3","]","[","]"," ","m",")">>),
    Str(<<"f","(">>),
    Str(<<"n","o","p","a","r","e","n">>),
    Str(<<"f","(","u","i","n","t","2","5","6"," ","x",","," ","b","o","o","l",
      " ","b",")">>),
    Str(<<"f","(","u","i","n","t","2","5","6"," ","x",")","t","r","a","i","l",
      "i","n","g">>),
    Str(<<"f","(","P","[","2","]"," ","p",",","Q"," ","q",")","P","(","Q"," ",
      "q",")","Q","(","b","o","o","l"," ","b",")">>) }

\* Method definitions handed to Method::parse and MethodAndTypes::parse:
\* the method texts, a type declared twice, an argument list left open, and
\* text that is no declaration after the first one.
MethodDefs ==
  MethodTexts \cup
  { Str(<<"f","(","P"," ","p",")","P","(","b","o","o","l"," ","b",")","P","(","u",
    "i","n","t","8"," ","c",")">>),
    Str(<<"f","(","P"," ","p",")","P","(","b","o","o","l"," ","b">>),
    Str(<<"f","(",")","g","(",")","(">>),
    Str(<<"f","(","u","i","n","t","2","5","6"," "," ","x",")">>),
    <<>> }

\* Argument bytes.
ArgBytes ==
  { <<>>, <<192>>, TestCallArgs, <<193, 7>>, <<194, 7, 8>>, <<195, 7, 193, 65>>,
    <<193, 192>>, <<131, 1, 2, 3>>, <<194, 129, 7>>, <<213>> \o Bytes20 }

\* The records handed to prepare_meta_call_args.
Calls ==
  { [sender |-> Address_zero, nonce |-> U256_from_u64(n), fee_amount |-> U128(5),
     fee_address |-> Str(<<"t","o","k","e","n">>), contract_address |-> a,
     method_name |-> m, value |-> U128(1), args |-> b] :
    n \in 0..1, a \in {Str(<<"u","s","e","r","2">>), <<>>},
    m \in MethodTexts \cup {<<>>}, b \in ArgBytes }

\* Types and values for eip_712_hash_argument: the types of the fields of
\* HashTypesText, and the values of nesting depth at most 2 built from three
\* byte strings and lists of at most 2 elements.
HashTypesText ==
  Str(<<"t","(","u","i","n","t","2","5","6"," ","a",",","a","d","d","r","e","s",
    "s"," ","b",",","s","t","r","i","n","g"," ","c",",","b","y","t","e","s",
    "2"," ","d",",","u","i","n","t","2","5","6","[","]"," ","e",",","a","d",
    "d","r","e","s","s","[","]"," ","f",",","b","o","o","l","[","]","[","2",
    "]"," ","g",",","P"," ","h",",","Q"," ","i",",","P","[","]"," ","j",",",
    "R"," ","k",")","P","(","u","i","n","t","2","5","6"," ","x",",","R"," ",
    "r",")","R","(","a","d","d","r","e","s","s"," ","a",")">>)

HashTypes == MethodAndTypes_parse(HashTypesText).v

ArgTypes == {HashTypes.method.args[i].t : i \in 1..Len(HashTypes.method.args)}

LeafValues == {RlpBytes(<<1>>), RlpBytes(Zeros(20)), RlpBytes(Zeros(33))}
ListsOf(V) == {RlpList(l) : l \in SeqsUpTo(V, 2)}
Values1 == LeafValues \cup ListsOf(LeafValues)
Values2 == Values1 \cup ListsOf(Values1)

\* Type texts handed to parse_type: a first word, at most MaxSuffixes bracket
\* groups and a tail.  The words are the keywords, sized keywords inside and
\* outside the ranges of the token regexes, identifiers, digits and
\* punctuation; the bracket groups go up to 2^64, one past the largest u64.
MaxSuffixes == 2

BaseTexts ==
  { Str(<<"a","d","d","r","e","s","s">>),
    Str(<<"b","o","o","l">>),
    Str(<<"s","t","r","i","n","g">>),
    Str(<<"b","y","t","e","s">>),
    Str(<<"b","y","t","e">>),
    Str(<<"b","y","t","e","s","1">>),
    Str(<<"b","y","t","e","s","3","2">>),
    Str(<<"b","y","t","e","s","3","3">>),
    Str(<<"b","y","t","e","s","0">>),
    Str(<<"b","y","t","e","s","0","7">>),
    Str(<<"u","i","n","t">>),
    Str(<<"u","i","n","t","8">>),
    Str(<<"u","i","n","t","2","5","6">>),
    Str(<<"u","i","n","t","7">>),
    Str(<<"u","i","n","t","2","6","4">>),
    Str(<<"i","n","t">>),
    Str(<<"i","n","t","2","5","6">>),
    Str(<<"i","n","t","9">>),
    Str(<<"P","e","t">>),
    Str(<<"_">>),
    Str(<<"$">>),
    Str(<<"2","7">>),
    Str(<<"*">>),
    Str(<<"S",".","T">>),
    <<>> }

SuffixTexts ==
  { Str(<<"[","]">>),
    Str(<<"[","3","]">>),
    Str(<<"[","0","0","7","]">>),
    Str(<<"[","1","8","4","4","6","7","4","4","0","7","3","7","0","9","5","5",
      "1","6","1","5","]">>),
    Str(<<"[","1","8","4","4","6","7","4","4","0","7","3","7","0","9","5","5",
      "1","6","1","6","]">>) }

TailTexts ==
  { <<>>,
    Str(<<"b","o","o","l">>),
    Str(<<"[">>),
    Str(<<"[","x","]">>) }

TypeTexts ==
  { b \o Concat(ss) \o t :
    b \in BaseTexts, ss \in SeqsUpTo(SuffixTexts, MaxSuffixes), t \in TailTexts }

\* Digests and signatures handed to ecrecover: wallet 1's signature with
\* several values of v, nobody's signature, and byte strings of 0, 64 and 66
\* bytes.
RecoverInputs ==
  {SignedDigest(1), keccak256(<<1>>)}
  \X ({Sign(1, 1) \o <<v>> : v \in {0, 1, 27, 28, 31}}
      \cup {Zeros(65), <<>>, Sign(1, 1), Sign(1, 1) \o <<27, 0>>})

FnInit ==
  \/ op = "MethodAndTypes::parse" /\ arg \in MethodDefs /\ out = Pending
  \/ op = "Method::parse" /\ arg \in MethodDefs /\ out = Pending
  \/ op = "rlp_decode" /\ arg \in RlpInputs /\ out = Pending
  \/ op = "prepare_meta_call_args" /\ arg \in Calls /\ out = Pending
  \/ op = "eip_712_hash_argument" /\ arg \in ArgTypes \X Values2 /\ out = Pending
  \/ op = "parse_type" /\ arg \in TypeTexts /\ out = Pending
  \/ op = "ecrecover" /\ arg \in RecoverInputs /\ out = Pending
  \/ op = "MethodAndTypes::parse by steps" /\ arg \in MethodDefs /\ out = Pending

ApplyMethodParse ==
  /\ op = "MethodAndTypes::parse" /\ out = Pending
  /\ out' = MethodAndTypes_parse(arg)
  /\ UNCHANGED <<op, arg>>

ApplyRlpDecode ==
  /\ op = "rlp_decode" /\ out = Pending
  /\ out' = rlp_decode(arg)
  /\ UNCHANGED <<op, arg>>

ApplyPrepare ==
  /\ op = "prepare_meta_call_args" /\ out = Pending
  /\ out' = prepare_meta_call_args(DomainSeparator, current_account_id, arg)
  /\ UNCHANGED <<op, arg>>

ApplyHashArgument ==
  /\ op = "eip_712_hash_argument" /\ out = Pending
  /\ out' = eip_712_hash_argument(arg[1], arg[2], HashTypes.types)
  /\ UNCHANGED <<op, arg>>

ApplyMethod ==
  /\ op = "Method::parse" /\ out = Pending
  /\ out' = Method_parse(arg)
  /\ UNCHANGED <<op, arg>>

ApplyEcrecover ==
  /\ op = "ecrecover" /\ out = Pending
  /\ out' = ecrecover(arg[1], arg[2])
  /\ UNCHANGED <<op, arg>>

\* MethodAndTypes::parse between two iterations of its loop: the locals, and
\* the number of iterations done.
Running(method, types, type_sequences, parsed_types, iterations) ==
  [ok |-> FALSE, err |-> "running", method |-> method, types |-> types,
   type_sequences |-> type_sequences, parsed_types |-> parsed_types,
   iterations |-> iterations]

\* let (method, mut types) = Method::parse(method_def)?;
ParseMethod ==
  /\ op = "MethodAndTypes::parse by steps" /\ out = Pending
  /\ \E r \in {Method_parse(arg)} :
       out' = IF ~r.ok THEN r ELSE Running(r.v[1], r.v[2], <<>>, EmptyMap, 0)
  /\ UNCHANGED <<op, arg>>

\* A variant of ParseAuxType that does not move on in the text.
ParseAuxType_in_place ==
  /\ op = "MethodAndTypes::parse by steps"
  /\ ~out.ok /\ out.err = "running" /\ out.types # <<>>
  /\ out.iterations <= Len(arg)
  /\ \E r \in {Method_parse(out.types)} :
       out' = IF ~r.ok THEN r
              ELSE Running(out.method, out.types,
                           Append(out.type_sequences, r.v[1].name),
                           MapInsert(out.parsed_types, r.v[1].name, r.v[1]),
                           out.iterations + 1)
  /\ UNCHANGED <<op, arg>>

\* One iteration of while !types.is_empty() { .. }
ParseAuxType ==
  /\ op = "MethodAndTypes::parse by steps"
  /\ ~out.ok /\ out.err = "running" /\ out.types # <<>>
  /\ \E r \in {Method_parse(out.types)} :
       out' = IF ~r.ok THEN r
              ELSE Running(out.method, r.v[2],
                           Append(out.type_sequences, r.v[1].name),
                           MapInsert(out.parsed_types, r.v[1].name, r.v[1]),
                           out.iterations + 1)
  /\ UNCHANGED <<op, arg>>

\* Ok(MethodAndTypes { method, types: parsed_types, type_sequences })
ReturnParsed ==
  /\ op = "MethodAndTypes::parse by steps"
  /\ ~out.ok /\ out.err = "running" /\ out.types = <<>>
  /\ out' = Ok([method |-> out.method, types |-> out.parsed_types,
                type_sequences |-> out.type_sequences])
  /\ UNCHANGED <<op, arg>>

ApplyParseType ==
  /\ op = "parse_type" /\ out = Pending
  /\ out' = parse_type(arg)
  /\ UNCHANGED <<op, arg>>

FnNext ==
  \/ ApplyMethodParse /\ UNCHANGED <<contractVars, parseVars>>
  \/ ApplyRlpDecode /\ UNCHANGED <<contractVars, parseVars>>
  \/ ApplyPrepare /\ UNCHANGED <<contractVars, parseVars>>
  \/ ApplyHashArgument /\ UNCHANGED <<contractVars, parseVars>>
  \/ ApplyParseType /\ UNCHANGED <<contractVars, parseVars>>
  \/ ApplyMethod /\ UNCHANGED <<contractVars, parseVars>>
  \/ ApplyEcrecover /\ UNCHANGED <<contractVars, parseVars>>
  \/ ParseMethod /\ UNCHANGED <<contractVars, parseVars>>
  \/ ParseAuxType /\ UNCHANGED <<contractVars, parseVars>>
  \/ ReturnParsed /\ UNCHANGED <<contractVars, parseVars>>

InitFn == FnInit /\ ContractInit /\ ParseIdle
SpecFn == InitFn /\ [][FnNext]_vars

(***************************************************************************)
(* Properties of the single functions                                      *)
(***************************************************************************)
\* C1: when prepare_meta_call_args succeeds, the digest is
\* keccak256(0x19 0x01 domain_separator hash_struct(message)), where
\* hash_struct(message) is keccak256 of the encoding of the message fields.
C1_DigestOfMessage ==
  (op = "prepare_meta_call_args" /\ out.ok) =>
    out.v.msg = keccak256(<<25, 1>> \o DomainSeparator
                          \o keccak256(encode_message(current_account_id, arg).v.bytes))

\* The names of the Custom types in ty, through arrays.
RECURSIVE CustomNames(_)
CustomNames(ty) ==
  CASE ty.k = "Custom" -> {ty.name}
    [] ty.k = "Array" -> CustomNames(ty.inner)
    [] OTHER -> {}

\* C7: in every MethodAndTypes that MethodAndTypes::parse returns, each
\* Custom(name) reachable from the types of the primary method's arguments,
\* through arrays, is a key of types.
C7_CustomTypesDeclared ==
  (op = "MethodAndTypes::parse" /\ out.ok) =>
    \A i \in 1..Len(out.v.method.args) :
      CustomNames(out.v.method.args[i].t) \subseteq DOMAIN out.v.types

\* The hashes of the values d paired with the declared arguments in order.
PairedHashes(m, d) ==
  [i \in 1..Len(d) |-> eip_712_hash_argument(m.method.args[i].t, d[i], m.types)]

\* C8: for a non-empty method that parses and argument bytes that decode,
\* prepare_meta_call_args returns ArgsLengthMismatch when the number of
\* decoded values differs from the number of declared arguments; otherwise
\* it hashes value i with the type of declared argument i, and the argument
\* bytes it returns are the Arguments type hash followed by those hashes.
C8_ArgsLength ==
  (op = "prepare_meta_call_args" /\ out # Pending /\ arg.method_name # <<>>) =>
    \A m \in {MethodAndTypes_parse(arg.method_name)}, d \in {rlp_decode(arg.args)} :
      (m.ok /\ d.ok) =>
        IF Len(m.v.method.args) # Len(d.v)
        THEN out = Err(ArgsLengthMismatch)
        ELSE \A h \in {PairedHashes(m.v, d.v)} :
               IF \A i \in 1..Len(h) : h[i].ok
               THEN /\ out.ok
                    /\ out.v.arg_bytes
                         = keccak256(arguments_text(arg.method_name).v)
                           \o Concat([i \in 1..Len(h) |-> h[i].v])
               ELSE ~out.ok /\ out \in {h[i] : i \in 1..Len(h)}

\* Two values were sent for a method of one argument and were refused.
C8_Witness ==
  /\ op = "prepare_meta_call_args"
  /\ out = Err(ArgsLengthMismatch)
  /\ arg.method_name = MethodTestCall
  /\ arg.args = <<194, 7, 8>>

\* C9: rlp_decode returns a value list only for argument bytes whose
\* outermost item is a complete RLP list; empty or truncated bytes and a
\* byte string are refused.
C9_OnlyLists ==
  (op = "rlp_decode" /\ out.ok) => (is_list(arg) /\ payload_info(arg).ok)

\* A value of the wrong shape for ty at some depth: a List for a leaf type,
\* Bytes for an Array or a declared Custom type, or such a value inside.
RECURSIVE ShapeMismatch(_, _, _)
ShapeMismatch(ty, value, types) ==
  CASE ty.k = "Array" ->
         \/ value.k = "Bytes"
         \/ \E i \in 1..Len(value.l) : ShapeMismatch(ty.inner, value.l[i], types)
    [] ty.k = "Custom" ->
         \/ value.k = "Bytes"
         \/ /\ ty.name \in DOMAIN types
            /\ \E i \in 1..Len(value.l) :
                 /\ i <= Len(types[ty.name].args)
                 /\ ShapeMismatch(types[ty.name].args[i].t, value.l[i], types)
    [] OTHER -> value.k = "List"

\* C10: a value of the wrong shape, at any depth, makes the whole
\* eip_712_hash_argument yield InvalidMetaTransactionFunctionArg.
C10_ShapeMismatchIsError ==
  (/\ op = "eip_712_hash_argument" /\ out # Pending
   /\ ShapeMismatch(arg[1], arg[2], HashTypes.types))
  => out = Err(InvalidMetaTransactionFunctionArg)

(***************************************************************************)
(* Properties of parse_type                                                *)
(***************************************************************************)
\* The base types by their canonical spellings.
CanonicalBase ==
  { <<Str(<<"a","d","d","r","e","s","s">>), TAddress>>,
    <<Str(<<"b","o","o","l">>), TBool>>,
    <<Str(<<"s","t","r","i","n","g">>), TString>>,
    <<Str(<<"b","y","t","e","s">>), TBytes>>,
    <<Str(<<"b","y","t","e">>), TByte(1)>>,
    <<Str(<<"b","y","t","e","s","1">>), TByte(1)>>,
    <<Str(<<"b","y","t","e","s","3","2">>), TByte(32)>>,
    <<Str(<<"u","i","n","t">>), TUint>>,
    <<Str(<<"u","i","n","t","8">>), TUint>>,
    <<Str(<<"u","i","n","t","2","5","6">>), TUint>>,
    <<Str(<<"i","n","t">>), TInt>>,
    <<Str(<<"i","n","t","2","5","6">>), TInt>>,
    <<Str(<<"P","e","t">>), TCustom(Str(<<"P","e","t">>))>> }

\* The length a bracket group states: None for [], Some(K) for [K].
StatedLength(group) ==
  IF group = Str(<<"[","]">>) THEN <<>>
  ELSE <<StripZeros(SubSeq(group, 2, Len(group) - 1))>>

\* The type t wrapped by the groups ss, the first innermost.
RECURSIVE Nested(_, _)
Nested(t, ss) ==
  IF ss = <<>> THEN t
  ELSE TArray(StatedLength(ss[Len(ss)]), Nested(t, Head2(ss, Len(ss) - 1)))

\* C11: for a base type followed by bracket groups s1 .. sk, parse_type
\* returns the arrays nested with sk outermost and s1 around the base type,
\* each with length None for [] and Some(K) for [K].
C11_RightmostOutermost ==
  (op = "parse_type" /\ out # Pending) =>
    \A b \in CanonicalBase, ss \in SeqsUpTo(SuffixTexts, MaxSuffixes) :
      arg = b[1] \o Concat(ss) => out = Ok(Nested(b[2], ss))

\* The lexer meets a piece of text that is no token.
RECURSIVE HasErrorToken(_)
HasErrorToken(text) ==
  /\ text # <<>>
  /\ The({ nt.t.tok = "Error" \/ HasErrorToken(Tail2(text, nt.len))
           : nt \in {NextToken(text)} })

\* The text begins with a bracket group, [] or [K].
StartsWithSuffix(text) ==
  /\ text # <<>>
  /\ Head(text) = Ord("[")
  /\ \E n \in 2..Len(text) :
       /\ text[n] = Ord("]")
       /\ \A i \in 2..(n - 1) : IsDigit(text[i])

PurelyNumeric(text) == text # <<>> /\ \A i \in 1..Len(text) : IsDigit(text[i])

\* char::is_ascii_punctuation
IsPunctuation(c) == c \in (33..47) \cup (58..64) \cup (91..96) \cup (123..126)

PunctuationOnly(text) ==
  text # <<>> /\ \A i \in 1..Len(text) : IsPunctuation(text[i])

OutOfRange(text, prefix, sizes) ==
  /\ StartsWith(text, prefix)
  /\ PurelyNumeric(Tail2(text, Len(prefix)))
  /\ Len(text) <= Len(prefix) + 3
  /\ Decimal(Tail2(text, Len(prefix))) \notin sizes

\* C13 as stated: with a numeric suffix outside the canonical ranges
\* parse_type falls back to the default size: uintN and intN with N not a
\* multiple of 8 in 8..256 parse as Uint and Int, bytesN with N outside
\* 1..32 as FixedBytes(1).
C13_FallsBackToDefault ==
  (op = "parse_type" /\ out # Pending) =>
    /\ (OutOfRange(arg, Str(<<"u","i","n","t">>), IntSizes) => out = Ok(TUint))
    /\ (OutOfRange(arg, Str(<<"i","n","t">>), IntSizes) => out = Ok(TInt))
    /\ (OutOfRange(arg, Str(<<"b","y","t","e","s">>), 1..32) => out = Ok(TByte(1)))

\* C13, amended: with a numeric suffix outside the canonical ranges
\* parse_type neither fails nor falls back to a default size: the whole
\* word is an identifier, and uintN, intN and bytesN parse as Custom(word).
C13_OutOfRangeIsCustom ==
  (/\ op = "parse_type" /\ out # Pending
   /\ \/ OutOfRange(arg, Str(<<"u","i","n","t">>), IntSizes)
      \/ OutOfRange(arg, Str(<<"i","n","t">>), IntSizes)
      \/ OutOfRange(arg, Str(<<"b","y","t","e","s">>), 1..32))
  => out = Ok(TCustom(arg))

\* uint7 was parsed, as a Custom type of that name.
C13_Witness ==
  /\ op = "parse_type"
  /\ arg = Str(<<"u","i","n","t","7">>)
  /\ out = Ok(TCustom(arg))

(***************************************************************************)
(* Properties of the method parsers                                        *)
(***************************************************************************)
\* "type name,type name,..." of the arguments from i on.
RECURSIVE Declarations(_, _)
Declarations(args, i) ==
  IF i > Len(args) THEN <<>>
  ELSE (IF i > 1 THEN <<Ord(",")>> ELSE <<>>)
       \o args[i].type_raw \o <<Ord(" ")>> \o args[i].name
       \o Declarations(args, i + 1)

\* "name(type name,...)" of a parsed declaration.
DeclarationText(m) ==
  m.name \o <<Ord("(")>> \o Declarations(m.args, 1) \o <<Ord(")")>>

\* s occurs in text as a contiguous part.
OccursIn(s, text) ==
  \E i \in 0..(Len(text) - Len(s)) : SubSeq(text, i + 1, i + Len(s)) = s

\* C14: when Method::parse succeeds, raw followed by the remainder is the
\* input, and raw is the text name(type name,...) of what was parsed; each
\* auxiliary type kept by MethodAndTypes::parse has as raw its own
\* declaration only, and the raw texts in order make up the input when no
\* type is declared twice.
C14_RawIsConsumedText ==
  /\ (op = "Method::parse" /\ out.ok) =>
       /\ out.v[1].raw \o out.v[2] = arg
       /\ out.v[1].raw = DeclarationText(out.v[1])
  /\ (op = "MethodAndTypes::parse" /\ out.ok) =>
       /\ out.v.method.raw = DeclarationText(out.v.method)
       /\ StartsWith(arg, out.v.method.raw)
       /\ \A n \in DOMAIN out.v.types :
            /\ out.v.types[n].name = n
            /\ out.v.types[n].raw = DeclarationText(out.v.types[n])
            /\ OccursIn(out.v.types[n].raw, Tail2(arg, Len(out.v.method.raw)))
       /\ (Cardinality(DOMAIN out.v.types) = Len(out.v.type_sequences) =>
            arg = out.v.method.raw
                  \o Concat([i \in 1..Len(out.v.type_sequences) |->
                               out.v.types[out.v.type_sequences[i]].raw]))

\* Method::parse took a declaration of two arguments and left the
\* declarations after it as the remainder.
C14_Witness ==
  /\ op = "Method::parse" /\ out.ok
  /\ Len(out.v[1].args) = 2
  /\ out.v[2] # <<>>
  /\ out.v[1].raw # arg

(***************************************************************************)
(* The record parse_meta_call returns                                      *)
(***************************************************************************)
\* The text before the first opening parenthesis.
RECURSIVE BeforeParenthesis(_)
BeforeParenthesis(text) ==
  IF text = <<>> \/ Head(text) = Ord("(") THEN <<>>
  ELSE <<Head(text)>> \o BeforeParenthesis(Tail(text))

C16_WrongLengthIsError ==
  (op = "ecrecover" /\ out # Pending /\ Len(arg[2]) # 65) => out = Err("unit")

(***************************************************************************)
(* One signature, one call                                                 *)
(***************************************************************************)
\* The envelope each payload decodes to.
Envelopes == [m \in Messages |-> try_from_slice(Payloads[m])]

\* C17: a pair (signature, v) advances a sender's nonce at most once: when
\* an envelope is accepted for a sender, no other envelope with the same
\* signature and v was accepted for that sender before.
C17_SignatureAdvancesOnce ==
  [][ Accepts =>
        ~\E m \in accepted :
           /\ Payloads[m] # Payloads[last'.message]
           /\ Envelopes[m].v.signature = Envelopes[last'.message].v.signature
           /\ Envelopes[m].v.v = Envelopes[last'.message].v.v
           /\ Parsed[m].v.sender = last'.sender ]_vars

(***************************************************************************)
(* The loop of MethodAndTypes::parse                                       *)
(***************************************************************************)
InLoop(o) == ~o.ok /\ o.err = "running"

\* C18: MethodAndTypes::parse terminates: the primary method takes a part of
\* the text, each iteration of the loop returns an error or leaves a
\* strictly shorter text, the loop ends when the text is empty, and the
\* iterations are never more than the characters of the input.
C18_LoopShortensText ==
  [][ (op = "MethodAndTypes::parse by steps" /\ out' # out) =>
        /\ (out = Pending /\ InLoop(out')) =>
             Len(out'.types) < Len(arg) /\ out'.iterations = 0
        /\ (InLoop(out) /\ InLoop(out')) =>
             /\ out.types # <<>>
             /\ Len(out'.types) < Len(out.types)
             /\ out'.iterations = out.iterations + 1
             /\ out'.iterations + Len(out'.types) < Len(arg)
        /\ (InLoop(out) /\ out'.ok) => out.types = <<>>
        /\ ~InLoop(out') => out' = MethodAndTypes_parse(arg) ]_vars

\* The loop ran twice and ended with the text empty.
C18_Witness ==
  /\ op = "MethodAndTypes::parse by steps"
  /\ out.ok
  /\ Len(out.v.type_sequences) = 2

(***************************************************************************)
(* Struct values                                                           *)
(***************************************************************************)
\* C19: hashing a list against Custom(name) succeeds only when the list has
\* as many elements as the struct declared under name has fields; a list
\* with fewer or more elements yields InvalidMetaTransactionFunctionArg.
C19_FieldCountMatches ==
  (/\ op = "eip_712_hash_argument" /\ out # Pending
   /\ arg[1].k = "Custom"
   /\ arg[1].name \in DOMAIN HashTypes.types
   /\ arg[2].k = "List"
   /\ Len(arg[2].l) # Len(HashTypes.types[arg[1].name].args))
  => out = Err(InvalidMetaTransactionFunctionArg)

(***************************************************************************)
(* One base type per type text                                             *)
(***************************************************************************)
\* The kinds of the tokens of a text, in order.
RECURSIVE TokenKinds(_)
TokenKinds(text) ==
  IF text = <<>> THEN <<>>
  ELSE The({ <<nt.t.tok>> \o TokenKinds(Tail2(text, nt.len))
             : nt \in {NextToken(text)} })

BaseTokens ==
  {"Address", "Bool", "String", "Bytes", "FixedBytes", "Uint", "Int", "Identifier"}

\* C20: parse_type succeeds only on a text whose tokens are one base-type
\* token followed by bracket groups only; a text with a second base-type
\* token after a bracket group is refused.
C20_OneBaseType ==
  (op = "parse_type" /\ out.ok) =>
    \A k \in {TokenKinds(arg)} :
      /\ k # <<>>
      /\ k[1] \in BaseTokens
      /\ \A i \in 2..Len(k) : k[i] = "ReferenceType"

=============================================================================
